---- MODULE Spec2Model ----
(***************************************************************************)
(* Model of src/batch/item.rs: the write-batch Item (constructor with its  *)
(* size assertions, derived Clone / PartialEq, public fields) and the      *)
(* key-ordered CompactItem (Ord, PartialOrd, PartialEq, key()).            *)
(***************************************************************************)
EXTENDS Integers, Naturals, Sequences, FiniteSets, TLC

(***************************************************************************)
(* usize lengths.  A length is kept as two limbs, value = hi * 2^16 + lo,  *)
(* so that lengths around 2^32 (the u32 bound of the value check) are      *)
(* exact.                                                                  *)
(***************************************************************************)
\* widths of the integer types the constructor converts the lengths to
U8Bits == 8
U16Bits == 16
U32Bits == 32

LimbBits == U16Bits
Limb == 2 ^ LimbBits

USize(h, l) == [hi |-> h, lo |-> l]
USizeZero == USize(0, 0)
USizeOne == USize(0, 1)

\* a + b on usize (no operand here comes near the 64-bit wrap)
USizeAdd(a, b) ==
    LET s == a.lo + b.lo
    IN  USize(a.hi + b.hi + (s \div Limb), s % Limb)

\* a <= b on usize
USizeLeq(a, b) == a.hi < b.hi \/ (a.hi = b.hi /\ a.lo <= b.lo)

\* the largest value of an unsigned integer type of w bits (uN::MAX)
UIntMax(w) ==
    IF w <= LimbBits THEN USize(0, 2 ^ w - 1)
    ELSE USize(2 ^ (w - LimbBits) - 1, Limb - 1)

\* uN::try_from(n).is_ok() for a usize n: n fits in w bits
TryFromIsOk(w, n) == USizeLeq(n, UIntMax(w))

(***************************************************************************)
(* Byte strings (PartitionKey, UserKey, UserValue), run-length encoded: a  *)
(* sequence of runs [byte, count], count > 0, adjacent runs of different   *)
(* bytes, so that two byte strings are equal exactly when their encodings  *)
(* are.                                                                    *)
(***************************************************************************)
Bytes == {97, 98}

Run(b, n) == [byte |-> b, count |-> n]
EmptyBytes == << >>
Repeat(b, n) == IF n = USizeZero THEN EmptyBytes ELSE << Run(b, n) >>

\* s.len()
RECURSIVE BytesLen(_)
BytesLen(s) ==
    IF s = << >> THEN USizeZero
    ELSE USizeAdd(Head(s).count, BytesLen(Tail(s)))

\* s.is_empty()
IsEmpty(s) == BytesLen(s) = USizeZero

(***************************************************************************)
(* Arguments of Item::new are values of any type convertible to the byte   *)
(* buffers (a borrowed str, a slice, an owned vector); into() copies the   *)
(* bytes into the owned buffer and drops the source form.                  *)
(***************************************************************************)
Arg(f, s) == [form |-> f, bytes |-> s]
Into(a) == a.bytes

ValueTypes == {"Value", "Tombstone", "WeakTombstone"}

(***************************************************************************)
(* Item                                                                    *)
(***************************************************************************)
MkItem(p, k, v, t) ==
    [tag |-> "Item", partition |-> p, key |-> k, value |-> v, value_type |-> t]
Panic(msg) == [tag |-> "Panic", msg |-> msg]
NoValue == [tag |-> "None"]

IsItem(x) == x.tag = "Item"
IsPanic(x) == x.tag = "Panic"

\* mutants of Item::new
ItemNewPartitionUnchecked(partition, key, value, value_type) ==
    LET p == Into(partition)
        k == Into(key)
        v == Into(value)
    IN  IF IsEmpty(p) THEN Panic("assertion failed: !p.is_empty()")
        ELSE IF IsEmpty(k) THEN Panic("assertion failed: !k.is_empty()")
        ELSE IF ~TryFromIsOk(U16Bits, BytesLen(k))
            THEN Panic("Keys can be up to 65535 bytes long")
        ELSE IF ~TryFromIsOk(U32Bits, BytesLen(v))
            THEN Panic("Values can be up to 2^32 bytes long")
        ELSE MkItem(p, k, v, value_type)

ItemNewValueU16(partition, key, value, value_type) ==
    LET p == Into(partition)
        k == Into(key)
        v == Into(value)
    IN  IF IsEmpty(p) THEN Panic("assertion failed: !p.is_empty()")
        ELSE IF IsEmpty(k) THEN Panic("assertion failed: !k.is_empty()")
        ELSE IF ~TryFromIsOk(U8Bits, BytesLen(p))
            THEN Panic("Partition name too long")
        ELSE IF ~TryFromIsOk(U16Bits, BytesLen(k))
            THEN Panic("Keys can be up to 65535 bytes long")
        ELSE IF ~TryFromIsOk(U16Bits, BytesLen(v))
            THEN Panic("Values can be up to 2^32 bytes long")
        ELSE MkItem(p, k, v, value_type)

\* Item::new: the assertions in source order, then the struct
ItemNew(partition, key, value, value_type) ==
    LET p == Into(partition)
        k == Into(key)
        v == Into(value)
    IN  IF IsEmpty(p) THEN Panic("assertion failed: !p.is_empty()")
        ELSE IF IsEmpty(k) THEN Panic("assertion failed: !k.is_empty()")
        ELSE IF ~TryFromIsOk(U8Bits, BytesLen(p))
            THEN Panic("Partition name too long")
        ELSE IF ~TryFromIsOk(U16Bits, BytesLen(k))
            THEN Panic("Keys can be up to 65535 bytes long")
        ELSE IF ~TryFromIsOk(U32Bits, BytesLen(v))
            THEN Panic("Values can be up to 2^32 bytes long")
        ELSE MkItem(p, k, v, value_type)

\* mutant of the derived equality: the partition is left out
ItemEqNoPartition(a, b) ==
    /\ a.key = b.key
    /\ a.value = b.value
    /\ a.value_type = b.value_type

\* #[derive(PartialEq, Eq)]: field by field, in declaration order
ItemEq(a, b) ==
    /\ a.partition = b.partition
    /\ a.key = b.key
    /\ a.value = b.value
    /\ a.value_type = b.value_type

\* #[derive(Clone)]: a copy of every field
ItemClone(a) == MkItem(a.partition, a.key, a.value, a.value_type)

(***************************************************************************)
(* Inputs of the Item machine: byte strings of one repeated byte whose     *)
(* lengths sit on both sides of every limit the constructor checks.        *)
(***************************************************************************)
Succ(n) == USizeAdd(n, USizeOne)

PartitionArgs ==
    { Arg("str", s) : s \in { EmptyBytes,
                              Repeat(97, USizeOne),
                              Repeat(98, UIntMax(U8Bits)),
                              Repeat(97, Succ(UIntMax(U8Bits))) } }
KeyArgs ==
    { Arg("slice", s) : s \in { EmptyBytes,
                                Repeat(97, USizeOne),
                                Repeat(98, UIntMax(U16Bits)),
                                Repeat(97, Succ(UIntMax(U16Bits))) } }
ValueArgs ==
    { Arg("vec", s) : s \in { EmptyBytes,
                              Repeat(97, UIntMax(U16Bits)),
                              Repeat(97, Succ(UIntMax(U16Bits))),
                              Repeat(98, UIntMax(U32Bits)),
                              Repeat(97, Succ(UIntMax(U32Bits))) } }

NoArgs == [tag |-> "None"]
Call(p, k, v, t) ==
    [tag |-> "Call", partition |-> p, key |-> k, value |-> v, value_type |-> t]

(***************************************************************************)
(* CompactItem<K, V>.  K is instantiated with short byte keys, compared    *)
(* as Rust compares byte slices; V with a small set of payloads.           *)
(***************************************************************************)
MaxKeyLen == 2
NumPayloads == 2

RECURSIVE SeqsUpTo(_, _)
SeqsUpTo(S, n) ==
    IF n = 0 THEN { << >> }
    ELSE LET shorter == SeqsUpTo(S, n - 1)
         IN  shorter \cup { Append(s, x) : s \in shorter, x \in S }

Keys == SeqsUpTo(Bytes, MaxKeyLen)
Payloads == 1 .. NumPayloads

Value(k, v) == [kind |-> "Value", key |-> k, value |-> v]
Tombstone(k) == [kind |-> "Tombstone", key |-> k]
WeakTombstone(k) == [kind |-> "WeakTombstone", key |-> k]

CompactItems(ks, vs) ==
    { Value(k, v) : k \in ks, v \in vs }
        \cup { Tombstone(k) : k \in ks }
        \cup { WeakTombstone(k) : k \in ks }

\* Ord for the key type K: byte slices compare element by element, and a
\* proper prefix is less than the longer slice
RECURSIVE KeyCmp(_, _)
KeyCmp(a, b) ==
    IF a = << >> /\ b = << >> THEN "Equal"
    ELSE IF a = << >> THEN "Less"
    ELSE IF b = << >> THEN "Greater"
    ELSE IF Head(a) < Head(b) THEN "Less"
    ELSE IF Head(a) > Head(b) THEN "Greater"
    ELSE KeyCmp(Tail(a), Tail(b))

\* Eq for the key type K
KeyEq(a, b) == a = b

\* mutant of key(): a Value answers with its payload
CompactKeyValuePayload(self) ==
    CASE self.kind = "Value" -> << self.value >>
      [] self.kind = "Tombstone" -> self.key
      [] self.kind = "WeakTombstone" -> self.key

\* CompactItem::key: every variant's key
CompactKey(self) ==
    CASE self.kind = "Value" -> self.key
      [] self.kind = "Tombstone" -> self.key
      [] self.kind = "WeakTombstone" -> self.key

\* mutant of cmp: the operands are swapped
CompactCmpSwapped(self, other) == KeyCmp(CompactKey(other), CompactKey(self))

\* mutant of cmp: the marker kind decides before the key
KindRank(self) ==
    CASE self.kind = "Value" -> 0
      [] self.kind = "Tombstone" -> 1
      [] self.kind = "WeakTombstone" -> 2
CompactCmpKindFirst(self, other) ==
    IF KindRank(self) < KindRank(other) THEN "Less"
    ELSE IF KindRank(self) > KindRank(other) THEN "Greater"
    ELSE KeyCmp(CompactKey(self), CompactKey(other))

\* Ord::cmp
CompactCmp(self, other) == KeyCmp(CompactKey(self), CompactKey(other))

Some(x) == [some |-> TRUE, val |-> x]
None == [some |-> FALSE]

\* PartialOrd::partial_cmp
CompactPartialCmp(self, other) == Some(CompactCmp(self, other))

\* mutant of eq: the marker kind is compared too
CompactEqWithKind(self, other) ==
    self.kind = other.kind /\ KeyEq(CompactKey(self), CompactKey(other))

\* PartialEq::eq
CompactEq(self, other) == KeyEq(CompactKey(self), CompactKey(other))

(***************************************************************************)
(* Sorting a Vec<CompactItem> (slice::sort: stable, driven by Ord::cmp),   *)
(* as a stable insertion sort.                                             *)
(***************************************************************************)
MaxRecs == 3
MaxSortKeyLen == 1

\* x inserted after the last element that is not greater than it
RECURSIVE Insert(_, _)
Insert(s, x) ==
    IF s = << >> THEN << x >>
    ELSE IF CompactCmp(x, Head(s)) = "Less" THEN << x >> \o s
    ELSE << Head(s) >> \o Insert(Tail(s), x)

RECURSIVE SortFrom(_, _)
SortFrom(done, rest) ==
    IF rest = << >> THEN done
    ELSE SortFrom(Insert(done, Head(rest)), Tail(rest))

Sort(s) == SortFrom(<< >>, s)

SortKeys == SeqsUpTo(Bytes, MaxSortKeyLen)
SortItems == CompactItems(SortKeys, {1})

\* the result of a call, once it was made
Unset == [done |-> FALSE]
Out(x) == [done |-> TRUE, out |-> x]

VARIABLES
    args,        \* the arguments of the last call of Item::new
    ret,         \* what that call produced: an Item or a panic
    kept,        \* `let mut kept = ret.clone()`: a second, writable Item
    keptIntact,  \* no field of kept was written since it was cloned
    lhs, rhs,    \* two CompactItem records
    eqOut,       \* lhs == rhs, once evaluated
    cmpOut,      \* lhs.cmp(&rhs), once evaluated
    pcmpOut,     \* lhs.partial_cmp(&rhs), once evaluated
    recs,        \* a Vec<CompactItem>
    prev,        \* recs as it was before the last sort
    nsorts       \* how many times recs was sorted

itemVars == << args, ret, kept, keptIntact >>
cmpVars == << lhs, rhs, eqOut, cmpOut, pcmpOut >>
sortVars == << recs, prev, nsorts >>
vars == << args, ret, kept, keptIntact, lhs, rhs, eqOut, cmpOut, pcmpOut,
           recs, prev, nsorts >>

ItemIdle ==
    /\ args = NoArgs
    /\ ret = NoValue
    /\ kept = NoValue
    /\ keptIntact = TRUE

CmpIdle ==
    /\ lhs = Tombstone(<< >>)
    /\ rhs = Tombstone(<< >>)
    /\ eqOut = Unset
    /\ cmpOut = Unset
    /\ pcmpOut = Unset

SortIdle ==
    /\ recs = << >>
    /\ prev = << >>
    /\ nsorts = 0

Init == ItemIdle /\ CmpIdle /\ SortIdle

\* a panic of an assertion ends the run: nothing is enabled after it
Running == ~IsPanic(ret)

New(p, k, v, t) ==
    /\ Running
    /\ args' = Call(p, k, v, t)
    /\ ret' = ItemNew(p, k, v, t)
    /\ UNCHANGED << kept, keptIntact, cmpVars, sortVars >>

Clone ==
    /\ Running
    /\ IsItem(ret)
    /\ kept' = ItemClone(ret)
    /\ keptIntact' = TRUE
    /\ UNCHANGED << args, ret, cmpVars, sortVars >>

\* the fields are pub: kept.partition = x, kept.key = x, ...
WritePartition(p) ==
    /\ Running
    /\ IsItem(kept)
    /\ kept' = [kept EXCEPT !.partition = Into(p)]
    /\ keptIntact' = FALSE
    /\ UNCHANGED << args, ret, cmpVars, sortVars >>

WriteKey(k) ==
    /\ Running
    /\ IsItem(kept)
    /\ kept' = [kept EXCEPT !.key = Into(k)]
    /\ keptIntact' = FALSE
    /\ UNCHANGED << args, ret, cmpVars, sortVars >>

WriteValue(v) ==
    /\ Running
    /\ IsItem(kept)
    /\ kept' = [kept EXCEPT !.value = Into(v)]
    /\ keptIntact' = FALSE
    /\ UNCHANGED << args, ret, cmpVars, sortVars >>

WriteValueType(t) ==
    /\ Running
    /\ IsItem(kept)
    /\ kept' = [kept EXCEPT !.value_type = t]
    /\ keptIntact' = FALSE
    /\ UNCHANGED << args, ret, cmpVars, sortVars >>

Next ==
    \/ \E p \in PartitionArgs, k \in KeyArgs, v \in ValueArgs, t \in ValueTypes :
            New(p, k, v, t)
    \/ Clone
    \/ \E p \in PartitionArgs : WritePartition(p)
    \/ \E k \in KeyArgs : WriteKey(k)
    \/ \E v \in ValueArgs : WriteValue(v)
    \/ \E t \in ValueTypes : WriteValueType(t)

Spec == Init /\ [][Next]_vars

(***************************************************************************)
(* Comparing two CompactItem records: the pair is drawn at the start and   *)
(* the three comparison methods are applied to it.                         *)
(***************************************************************************)
InitCmp ==
    /\ ItemIdle /\ SortIdle
    /\ lhs \in CompactItems(Keys, Payloads)
    /\ rhs \in CompactItems(Keys, Payloads)
    /\ eqOut = Unset
    /\ cmpOut = Unset
    /\ pcmpOut = Unset

CallEq ==
    /\ eqOut = Unset
    /\ eqOut' = Out(CompactEq(lhs, rhs))
    /\ UNCHANGED << lhs, rhs, cmpOut, pcmpOut, itemVars, sortVars >>

CallCmp ==
    /\ cmpOut = Unset
    /\ cmpOut' = Out(CompactCmp(lhs, rhs))
    /\ UNCHANGED << lhs, rhs, eqOut, pcmpOut, itemVars, sortVars >>

CallPartialCmp ==
    /\ pcmpOut = Unset
    /\ pcmpOut' = Out(CompactPartialCmp(lhs, rhs))
    /\ UNCHANGED << lhs, rhs, eqOut, cmpOut, itemVars, sortVars >>

NextCmp == CallEq \/ CallCmp \/ CallPartialCmp

SpecCmp == InitCmp /\ [][NextCmp]_vars

(***************************************************************************)
(* Sorting: the vector is drawn at the start and sorted, then sorted again *)
(***************************************************************************)
InitSort ==
    /\ ItemIdle /\ CmpIdle
    /\ recs \in SeqsUpTo(SortItems, MaxRecs)
    /\ prev = recs
    /\ nsorts = 0

SortRecs ==
    /\ nsorts < 2
    /\ prev' = recs
    /\ recs' = Sort(recs)
    /\ nsorts' = nsorts + 1
    /\ UNCHANGED << itemVars, cmpVars >>

NextSort == SortRecs

SpecSort == InitSort /\ [][NextSort]_vars

(***************************************************************************)
(* Properties                                                              *)
(***************************************************************************)
Called == args.tag = "Call"
ArgPartitionLen == BytesLen(Into(args.partition))
ArgKeyLen == BytesLen(Into(args.key))
ArgValueLen == BytesLen(Into(args.value))

Len256 == USize(0, 256)
Len65535 == USize(0, 65535)
Len65536 == USize(1, 0)
LenU32Max == USize(65535, 65535)

Between(lo, n, hi) == USizeLeq(lo, n) /\ USizeLeq(n, hi)

\* C1: Item::new panics and returns no Item when the converted partition is
\* empty, the converted key is empty, the partition is 256 bytes long or the
\* key is 65536 bytes long.
C1_BadArgsPanic ==
    (Called /\ ( \/ Into(args.partition) = EmptyBytes
                 \/ Into(args.key) = EmptyBytes
                 \/ ArgPartitionLen = Len256
                 \/ ArgKeyLen = Len65536 ))
        => (IsPanic(ret) /\ ~IsItem(ret))

C1_Witness ==
    /\ Called
    /\ ArgPartitionLen = Len256
    /\ Between(USizeOne, ArgKeyLen, Len65535)
    /\ IsPanic(ret)

\* C2: for a partition of 1..255 bytes, a key of 1..65535 bytes and a value
\* whose length fits in 32 bits, Item::new does not panic and returns an Item
\* whose four fields are the converted arguments.
C2_ValidArgsRoundTrip ==
    (Called /\ Between(USizeOne, ArgPartitionLen, USize(0, 255))
            /\ Between(USizeOne, ArgKeyLen, Len65535)
            /\ USizeLeq(ArgValueLen, LenU32Max))
        => /\ IsItem(ret)
           /\ ret.partition = Into(args.partition)
           /\ ret.key = Into(args.key)
           /\ ret.value = Into(args.value)
           /\ ret.value_type = args.value_type

C2_Witness ==
    /\ Called
    /\ ArgPartitionLen = USize(0, 255)
    /\ ArgKeyLen = Len65535
    /\ ArgValueLen = LenU32Max
    /\ IsItem(ret)
    /\ ret.value_type = "WeakTombstone"

\* C3: CompactItem equality holds exactly when the two keys are equal,
\* whatever the variants and payloads.
C3_EqIsKeyEq ==
    eqOut.done => (eqOut.out <=> (lhs.key = rhs.key))

C3_Witness ==
    /\ eqOut.done
    /\ eqOut.out
    /\ lhs.kind = "Value"
    /\ rhs.kind = "Tombstone"
    /\ lhs.key # << >>

\* byte-lexicographic order, stated directly: a and b agree on their first i
\* bytes, and then a ends while b goes on, or a's next byte is the smaller
LexLess(a, b) ==
    \E i \in 0 .. Len(a) :
        /\ i <= Len(b)
        /\ \A j \in 1 .. i : a[j] = b[j]
        /\ \/ (i = Len(a) /\ i < Len(b))
           \/ (i < Len(a) /\ i < Len(b) /\ a[i + 1] < b[i + 1])

LexOrdering(a, b) ==
    IF LexLess(a, b) THEN "Less"
    ELSE IF LexLess(b, a) THEN "Greater"
    ELSE "Equal"

\* C4: cmp on two CompactItem records is the byte-lexicographic comparison of
\* their keys, for every combination of variants and payloads.
C4_CmpIsKeyOrder ==
    cmpOut.done =>
        /\ cmpOut.out = LexOrdering(lhs.key, rhs.key)
        /\ (cmpOut.out = "Equal" <=> lhs.key = rhs.key)

C4_Witness ==
    /\ cmpOut.done
    /\ cmpOut.out = "Less"
    /\ lhs.kind = "WeakTombstone"
    /\ rhs.kind = "Value"
    /\ Len(lhs.key) > Len(rhs.key)

WithinLimits(x) ==
    /\ Between(USizeOne, BytesLen(x.partition), USize(0, 255))
    /\ Between(USizeOne, BytesLen(x.key), Len65535)
    /\ USizeLeq(BytesLen(x.value), LenU32Max)

\* C5: every Item that exists, after any sequence of Item::new, clone and
\* field reads and writes, has a partition of 1..255 bytes, a key of 1..65535
\* bytes and a value of at most 2^32-1 bytes.
C5_EveryItemWithinLimits ==
    /\ IsItem(ret) => WithinLimits(ret)
    /\ IsItem(kept) => WithinLimits(kept)

\* C6: Item::new never returns an Item whose value is longer than 65535 bytes.
C6_ValueAtMost65535 ==
    IsItem(ret) => USizeLeq(BytesLen(ret.value), Len65535)

\* C7: two Items whose partitions differ are never equal, whatever their key,
\* value and value_type.
C7_DifferentPartitionsDiffer ==
    (IsItem(ret) /\ IsItem(kept) /\ ret.partition # kept.partition)
        => (~ItemEq(ret, kept) /\ ~ItemEq(kept, ret))

C7_Witness ==
    /\ IsItem(ret) /\ IsItem(kept)
    /\ ret.partition # kept.partition
    /\ ret.key = kept.key
    /\ ret.value = kept.value
    /\ ret.value_type = kept.value_type

Ordered(s) ==
    \A i, j \in 1 .. Len(s) : i < j => ~LexLess(s[j].key, s[i].key)

Grouped(s) ==
    \A i, j, k \in 1 .. Len(s) :
        (i < j /\ j < k /\ s[i].key = s[k].key) => s[j].key = s[i].key

Count(s, x) == Cardinality({ i \in 1 .. Len(s) : s[i] = x })
SameRecords(s, t) ==
    /\ Len(s) = Len(t)
    /\ \A i \in 1 .. Len(s) : Count(s, s[i]) = Count(t, s[i])

\* C8: sorting a sequence of CompactItem records keeps its records, puts
\* every record of a smaller key before every record of a larger key, equal
\* keys next to each other, and sorting the result again changes nothing.
C8_SortGroupsAndIsIdempotent ==
    /\ nsorts >= 1 =>
          /\ SameRecords(recs, prev)
          /\ Ordered(recs)
          /\ Grouped(recs)
    /\ nsorts >= 2 => recs = prev

C8_Witness ==
    /\ nsorts = 1
    /\ Len(recs) = 3
    /\ prev # recs
    /\ recs[1].key = recs[2].key
    /\ recs[1].kind = "Value"
    /\ recs[2].kind = "Tombstone"
    /\ LexLess(recs[2].key, recs[3].key)
    /\ prev[1] = recs[3]

\* C9: two Items returned by Item::new with the same partition, the same key
\* and the same value_type in {Tombstone, WeakTombstone} are equal, whatever
\* their value bytes.
C9_TombstoneValueIgnored ==
    (/\ IsItem(ret) /\ IsItem(kept) /\ keptIntact
     /\ ret.partition = kept.partition
     /\ ret.key = kept.key
     /\ ret.value_type = kept.value_type
     /\ ret.value_type \in {"Tombstone", "WeakTombstone"})
        => ItemEq(ret, kept)

Reverse(o) ==
    CASE o = "Less" -> "Greater"
      [] o = "Greater" -> "Less"
      [] o = "Equal" -> "Equal"

\* C10: a == b exactly when a.cmp(b) is Equal, a.partial_cmp(b) is
\* Some(a.cmp(b)) and never None, and a.cmp(b) is the reverse of b.cmp(a).
C10_ComparisonsAgree ==
    /\ (eqOut.done /\ cmpOut.done) => (eqOut.out <=> cmpOut.out = "Equal")
    /\ pcmpOut.done => pcmpOut.out # None
    /\ (pcmpOut.done /\ cmpOut.done) => pcmpOut.out = Some(cmpOut.out)
    /\ cmpOut.done => cmpOut.out = Reverse(CompactCmp(rhs, lhs))
    /\ eqOut.done => (eqOut.out <=> CompactCmp(lhs, rhs) = "Equal")

C10_Witness ==
    /\ eqOut.done /\ cmpOut.done /\ pcmpOut.done
    /\ lhs.kind # rhs.kind
    /\ eqOut.out
    /\ cmpOut.out = "Equal"

====
